---- MODULE Spec2Model ----
(***************************************************************************)
(* connector_docker_builder.py: one run of main().  The command line, the  *)
(* configuration file, the environment and the root directory are fixed    *)
(* inputs; the run constructs a ConnectorDockerBuilder, walks the listing  *)
(* of the root, builds each valid connector with `docker buildx build`,    *)
(* prints the summary and exits.                                           *)
(*                                                                         *)
(* Python values: None and '' are both the empty string, None and [] are   *)
(* both the empty sequence (the code only tests them with `or` / `if`,     *)
(* which cannot tell them apart); a dict is a function whose DOMAIN is its *)
(* set of keys.  The registry credentials (username, password) are stored *)
(* by __init__ and read by nothing, so they are left out.                  *)
(***************************************************************************)
EXTENDS Integers, Sequences, FiniteSets, TLC

VARIABLES
    root,       \* the root directory: [isdir, listing], listing = os.listdir order
    cli,        \* the command line: [opts |-> dict of valued options passed, flags |-> set]
    cfgfile,    \* the file at the --config path: [status, doc]
    environ,    \* os.environ after the .env file was loaded
    pc,         \* "main" (arguments parsed), "loop" (in build_and_push_images), "exit"
    self,       \* the builder's attributes (empty until __init__ returns)
    i,          \* position of the for loop in the listing
    results,    \* build_and_push_images' results list
    trace,      \* everything the run did, in order: log records, subprocess runs, appends, prints
    exit        \* <<>> while running, <<code>> once the process has exited

vars == <<root, cli, cfgfile, environ, pc, self, i, results, trace, exit>>

-----------------------------------------------------------------------------
(* Bounds of the model *)

MaxEntries == 3       \* entries in the root directory (Spec)
MaxInitEntries == 1   \* entries in the root directory (SpecInit)

-----------------------------------------------------------------------------
(* Python helpers *)

EmptyDict == [k \in {} |-> ""]

Get(d, k, default) == IF k \in DOMAIN d THEN d[k] ELSE default

\* x or y, on strings
OrStr(x, y) == IF x # "" THEN x ELSE y

\* x or y, on lists
OrList(x, y) == IF x # <<>> THEN x ELSE y

RECURSIVE Join(_, _)
Join(sep, s) ==
    IF s = <<>> THEN ""
    ELSE IF Len(s) = 1 THEN s[1]
    ELSE s[1] \o sep \o Join(sep, Tail(s))

Range(s) == {s[k] : k \in DOMAIN s}

-----------------------------------------------------------------------------
(* Literals of the program *)

default_ignore == <<".git", ".github", "__pycache__", "venv", "env">>

default_platforms == <<"linux/amd64", "linux/arm64">>

RootPath == "/srv/connectors"

ConfigPath == "/srv/builder.yml"

-----------------------------------------------------------------------------
(* main: argument parsing *)

\* parser.parse_args(): an option the operator did not pass takes its argparse
\* default, which is None except for --tag, whose default is 'latest'.
ParseArgs(c) ==
    [ base_path  |-> RootPath,
      org        |-> Get(c.opts, "org", ""),
      tag        |-> Get(c.opts, "tag", "latest"),
      dry_run    |-> "dry_run" \in c.flags,
      skip_build |-> "skip_build" \in c.flags,
      skip_push  |-> "skip_push" \in c.flags,
      ignore     |-> Get(c.opts, "ignore", <<>>),
      config     |-> Get(c.opts, "config", ""),
      platforms  |-> Get(c.opts, "platforms", <<>>) ]

-----------------------------------------------------------------------------
(* ConnectorDockerBuilder.__init__ *)

LogRecord(level, msg, about) == [ev |-> "log", level |-> level, msg |-> msg, about |-> about]

\* self.logger.<level>(...): the attribute exists only after _setup_logging.
HasLogger(obj) == "logger" \in DOMAIN obj

\* _load_config with both handlers returning the empty configuration
LoadConfig_Swallow(obj, file) ==
    IF file.status = "ok"
    THEN [raised |-> "", value |-> file.doc]
    ELSE [raised |-> "", value |-> EmptyDict]

\* _load_config on the builder `obj`: [raised, value].  Both handlers log
\* through self.logger before they return or exit.
LoadConfig(obj, file) ==
    CASE file.status = "ok" ->
            [raised |-> "", value |-> file.doc]
      [] file.status = "missing" ->
            IF HasLogger(obj)
            THEN [raised |-> "", value |-> EmptyDict]
            ELSE [raised |-> "AttributeError", value |-> EmptyDict]
      [] file.status = "malformed" ->
            IF HasLogger(obj)
            THEN [raised |-> "SystemExit", value |-> EmptyDict]
            ELSE [raised |-> "AttributeError", value |-> EmptyDict]

\* os.path.isdir(self.base_path)
ValidBasePath(r) == r.isdir

ResolveOrg(arg, config, env) ==
    OrStr(OrStr(arg, Get(config, "docker_hub_org", "")), Get(env, "DOCKER_HUB_ORG", ""))

ResolveTag(arg, config) == OrStr(arg, Get(config, "tag", "latest"))

ResolvePlatforms(arg, config) == OrList(arg, Get(config, "platforms", default_platforms))

\* The ignore list with the built-in entries as a default the user's list replaces
ResolveIgnore_UserReplaces(arg, config) ==
    Range(OrList(arg, Get(config, "ignore_list", default_ignore)))

ResolveIgnore(arg, config) ==
    Range(default_ignore) \cup Range(OrList(arg, Get(config, "ignore_list", <<>>)))

\* The attributes __init__ sets once the configuration is loaded.
Attributes(args, config, env) ==
    [ base_path      |-> args.base_path,
      config         |-> config,
      docker_hub_org |-> ResolveOrg(args.org, config, env),
      tag            |-> ResolveTag(args.tag, config),
      dry_run        |-> args.dry_run,
      skip_build     |-> args.skip_build,
      skip_push      |-> args.skip_push,
      platforms      |-> ResolvePlatforms(args.platforms, config),
      ignore_list    |-> ResolveIgnore(args.ignore, config),
      logger         |-> TRUE ]

InitLogs(obj) ==
    << LogRecord("info", "Initialized Docker Image Builder", ""),
       LogRecord("info", "Base Path", obj.base_path),
       LogRecord("info", "Docker Hub Org", OrStr(obj.docker_hub_org, "Not set")),
       LogRecord("info", "Image Tag", obj.tag),
       LogRecord("info", "Platforms", Join(", ", obj.platforms)) >>

\* ConnectorDockerBuilder(...): [raised, obj, logs].  docker_ok is whether
\* docker.from_env() returns a client.
NewBuilder(args, docker_ok) ==
    LET obj0 == [base_path |-> args.base_path]
        cfg  == IF args.config # "" THEN LoadConfig(obj0, cfgfile)
                ELSE [raised |-> "", value |-> EmptyDict]
        obj  == Attributes(args, cfg.value, environ)
    IN  IF ~ValidBasePath(root)
        THEN [raised |-> "ValueError", obj |-> obj0, logs |-> <<>>]
        ELSE IF cfg.raised # ""
        THEN [raised |-> cfg.raised, obj |-> obj0, logs |-> <<>>]
        ELSE IF ~docker_ok
        THEN [raised |-> "DockerException", obj |-> obj, logs |-> <<>>]
        ELSE [raised |-> "", obj |-> obj, logs |-> InitLogs(obj)]

-----------------------------------------------------------------------------
(* main: the try block *)

\* `except Exception` catches everything but SystemExit.
CaughtByMain(exc) == exc # "SystemExit"

PrintRecord(msg, about) == [ev |-> "print", msg |-> msg, about |-> about]

\* The process ends because `exc` left the try block after the run did
\* `done`: main's handler prints it and exits 1; a SystemExit ends the
\* process with the code it carries.
Leave(exc, code, done) ==
    /\ pc' = "exit"
    /\ IF CaughtByMain(exc)
       THEN /\ exit' = <<1>>
            /\ trace' = Append(done, PrintRecord("Error", exc))
       ELSE /\ exit' = <<code>>
            /\ trace' = done

\* builder = ConnectorDockerBuilder(...)
Construct ==
    /\ pc = "main"
    /\ \E docker_ok \in BOOLEAN :
         LET b == NewBuilder(ParseArgs(cli), docker_ok)
         IN  IF b.raised # ""
             THEN /\ Leave(b.raised, 1, trace)
                  /\ UNCHANGED <<self, i, results>>
             ELSE /\ pc' = "loop"
                  /\ self' = b.obj
                  /\ trace' = trace \o b.logs
                  /\ UNCHANGED <<i, results, exit>>
    /\ UNCHANGED <<root, cli, cfgfile, environ>>

-----------------------------------------------------------------------------
(* _validate_connector, _build_and_push_multiarch *)

ValidateConnector(obj, entry) ==
    IF ~entry.isdir THEN FALSE
    ELSE IF entry.name \in obj.ignore_list THEN FALSE
    ELSE entry.dockerfile

\* The image name under the default tag instead of the builder's
ImageName_DefaultTag(obj, folder) ==
    IF obj.docker_hub_org # ""
    THEN obj.docker_hub_org \o "/" \o folder \o ":" \o "latest"
    ELSE folder \o ":" \o "latest"

ImageName(obj, folder) ==
    IF obj.docker_hub_org # ""
    THEN obj.docker_hub_org \o "/" \o folder \o ":" \o obj.tag
    ELSE folder \o ":" \o obj.tag

\* The push argument without the test on the namespace
PushArg_NoOrgTest(obj) == IF ~obj.skip_push THEN "--push" ELSE ""

\* '--push' if not self.skip_push and self.docker_hub_org else ''
PushArg(obj) == IF ~obj.skip_push /\ obj.docker_hub_org # "" THEN "--push" ELSE ""

\* build_args, the empty strings removed
BuildArgs(obj, context_path, image_name) ==
    SelectSeq(<< "docker", "buildx", "build",
                 "--platform", Join(",", obj.platforms),
                 "-t", image_name,
                 context_path,
                 PushArg(obj) >>,
              LAMBDA arg : arg # "")

\* if self.skip_build
SkipsBuild(obj) == obj.skip_build

\* The build without the dry-run test
Simulates_Never(obj) == FALSE

\* if self.dry_run
Simulates(obj) == obj.dry_run

\* What subprocess.run does: return code 0, a nonzero return code, or an
\* exception (the docker executable cannot be started).
Outcomes == {"0", "1", "OSError"}

RunRecord(args, outcome) == [ev |-> "run", args |-> args, outcome |-> outcome]

\* The build without its handler: whatever subprocess.run raises leaves
\* _build_and_push_multiarch.
CaughtByBuild_Uncaught(exc) == FALSE

\* The try block's `except Exception` around the build.
CaughtByBuild(exc) == exc # "SystemExit"

\* _build_and_push_multiarch: [raised, ret, events]
BuildAndPushMultiarch(obj, context_path, image_name, outcome) ==
    IF SkipsBuild(obj)
    THEN [raised |-> "", ret |-> TRUE,
          events |-> <<LogRecord("info", "Skipping build", image_name)>>]
    ELSE IF Simulates(obj)
    THEN [raised |-> "", ret |-> TRUE,
          events |-> <<LogRecord("info", "[DRY RUN] Would build", image_name)>>]
    ELSE
        LET started == << LogRecord("info", "Building multi-arch image", image_name),
                          RunRecord(BuildArgs(obj, context_path, image_name), outcome) >>
        IN  CASE outcome = "0" ->
                    [raised |-> "", ret |-> TRUE,
                     events |-> Append(started,
                         LogRecord("info", "Successfully built and pushed", image_name))]
              [] outcome = "1" ->
                    [raised |-> "", ret |-> FALSE,
                     events |-> started \o
                         << LogRecord("error", "Build failed", image_name),
                            LogRecord("error", "stderr", image_name) >>]
              [] OTHER ->
                    IF CaughtByBuild(outcome)
                    THEN [raised |-> "", ret |-> FALSE,
                          events |-> Append(started,
                              LogRecord("error", "Unexpected error building", image_name))]
                    ELSE [raised |-> outcome, ret |-> FALSE, events |-> started]

-----------------------------------------------------------------------------
(* build_and_push_images: one iteration of the for loop per step *)

AppendRecord(folder, success) == [ev |-> "append", folder |-> folder, success |-> success]

\* if not self._validate_connector(connector_path): ... continue
SkipEntry ==
    /\ pc = "loop"
    /\ i <= Len(root.listing)
    /\ ~ValidateConnector(self, root.listing[i])
    /\ trace' = Append(trace, LogRecord("info", "Skipping: Invalid connector", root.listing[i].name))
    /\ i' = i + 1
    /\ UNCHANGED <<root, cli, cfgfile, environ, pc, self, results, exit>>

\* image_name = ...; success = self._build_and_push_multiarch(...); results.append(...)
BuildEntry ==
    /\ pc = "loop"
    /\ i <= Len(root.listing)
    /\ ValidateConnector(self, root.listing[i])
    /\ \E outcome \in Outcomes :
         LET folder == root.listing[i].name
             r == BuildAndPushMultiarch(self, self.base_path \o "/" \o folder,
                                        ImageName(self, folder), outcome)
         IN  IF r.raised # ""
             THEN /\ Leave(r.raised, 1, trace \o r.events)
                  /\ UNCHANGED <<i, results>>
             ELSE /\ results' = Append(results, <<folder, r.ret>>)
                  /\ trace' = (trace \o r.events) \o <<AppendRecord(folder, r.ret)>>
                  /\ i' = i + 1
                  /\ UNCHANGED <<pc, exit>>
    /\ UNCHANGED <<root, cli, cfgfile, environ, self>>

-----------------------------------------------------------------------------
(* main: the summary *)

Successful(res) == Cardinality({k \in DOMAIN res : res[k][2]})

\* The exit status with the test on the wrong count: 0 as soon as one
\* build succeeded.
ExitStatus_AnySuccess(res) == IF Successful(res) > 0 \/ Len(res) = 0 THEN 0 ELSE 1

\* sys.exit(0 if successful_connectors == total_connectors else 1)
ExitStatus(res) == IF Successful(res) = Len(res) THEN 0 ELSE 1

SummaryPrints(res) ==
    << PrintRecord("--- Build and Push Summary ---", ""),
       PrintRecord("Total Connectors", Len(res)),
       PrintRecord("Successful Builds", Successful(res)),
       PrintRecord("Failed Builds", Len(res) - Successful(res)),
       PrintRecord("Detailed Results:", "") >>
    \o [k \in DOMAIN res |->
          PrintRecord(IF res[k][2] THEN "Success" ELSE "Failed", res[k][1])]

\* The loop is over: results are returned, the summary is printed and
\* sys.exit raises SystemExit inside the try block.
Summarize ==
    /\ pc = "loop"
    /\ i > Len(root.listing)
    /\ Leave("SystemExit", ExitStatus(results), trace \o SummaryPrints(results))
    /\ UNCHANGED <<root, cli, cfgfile, environ, self, i, results>>

Next == Construct \/ SkipEntry \/ BuildEntry \/ Summarize

-----------------------------------------------------------------------------
(* The inputs of a run *)

ConnectorNames == <<"alpha", "beta", "gamma", "delta", "epsilon">>

\* What the k-th directory entry can be: a plain file, a directory without
\* a Dockerfile, a directory with one, or a directory with a Dockerfile
\* that carries a built-in ignored name.
EntriesAt(k) ==
    { [name |-> ConnectorNames[k], isdir |-> FALSE, dockerfile |-> FALSE],
      [name |-> ConnectorNames[k], isdir |-> TRUE,  dockerfile |-> FALSE],
      [name |-> ConnectorNames[k], isdir |-> TRUE,  dockerfile |-> TRUE],
      [name |-> default_ignore[k], isdir |-> TRUE,  dockerfile |-> TRUE] }

RECURSIVE ListingsOfLen(_)
ListingsOfLen(m) ==
    IF m = 0 THEN {<<>>}
    ELSE {Append(l, e) : l \in ListingsOfLen(m - 1), e \in EntriesAt(m)}

Roots(n) ==
    { [isdir |-> TRUE, listing |-> l] :
        l \in UNION {ListingsOfLen(m) : m \in 0..n} }
    \cup { [isdir |-> FALSE, listing |-> <<>>] }

\* An option that is not on the command line
Absent == "<absent>"
AbsentList == <<"<absent>">>

Options(org, tag, ignore, config, platforms) ==
    LET given == [ org |-> org, tag |-> tag, ignore |-> ignore,
                   config |-> config, platforms |-> platforms ]
        passed == { k \in {"org", "tag", "config"} : given[k] # Absent }
                  \cup { k \in {"ignore", "platforms"} : given[k] # AbsentList }
    IN  [k \in passed |-> given[k]]

Flags == {"dry_run", "skip_build", "skip_push"}

\* Documents the configuration file can hold
FullDoc ==
    [ docker_hub_org |-> "cfgorg", tag |-> "v3",
      platforms |-> <<"linux/arm64">>, ignore_list |-> <<"alpha">> ]

InitOver(roots, clis, files, environs) ==
    /\ root \in roots
    /\ cli \in clis
    /\ cfgfile \in IF "config" \in DOMAIN cli.opts THEN files
                   ELSE {[status |-> "missing", doc |-> EmptyDict]}
    /\ environ \in environs
    /\ pc = "main"
    /\ self = EmptyDict
    /\ i = 1
    /\ results = <<>>
    /\ trace = <<>>
    /\ exit = <<>>

\* Runs: every listing of up to MaxEntries entries, every flag, with and
\* without a namespace (on the command line, in the environment), a tag,
\* an ignore list and a configuration file.
Init ==
    InitOver(
        Roots(MaxEntries),
        { [opts |-> Options(o, t, g, c, AbsentList), flags |-> f] :
            o \in {Absent, "acme"}, t \in {Absent, "v2"},
            g \in {AbsentList, <<"beta">>}, c \in {Absent, ConfigPath},
            f \in SUBSET Flags },
        { [status |-> "ok", doc |-> [ignore_list |-> <<"alpha">>]] },
        { EmptyDict, [DOCKER_HUB_ORG |-> "envorg"] } )

Spec == Init /\ [][Next]_vars

\* Builds: every listing of up to MaxEntries entries and every flag, with
\* and without a namespace.
InitBuilds ==
    InitOver(
        Roots(MaxEntries),
        { [opts |-> Options(o, Absent, AbsentList, Absent, AbsentList), flags |-> f] :
            o \in {Absent, "acme"}, f \in SUBSET Flags },
        { [status |-> "missing", doc |-> EmptyDict] },
        { EmptyDict } )

\* main is straight-line code around a loop over a finite listing: a run
\* that can take a step takes it.
FairSpec == InitBuilds /\ [][Next]_vars /\ WF_vars(Next)

\* Initialization: every layer of the settings and every state of the
\* configuration file, over listings of up to MaxInitEntries entries.
InitSettings ==
    InitOver(
        Roots(MaxInitEntries),
        { [opts |-> Options(o, t, g, c, p), flags |-> f] :
            o \in {Absent, "acme"}, t \in {Absent, "latest", "v2"},
            g \in {AbsentList, <<"beta">>}, c \in {Absent, ConfigPath},
            p \in {AbsentList, <<"linux/amd64">>},
            f \in {{}, {"dry_run"}} },
        { [status |-> "missing", doc |-> EmptyDict],
          [status |-> "malformed", doc |-> EmptyDict] }
        \cup { [status |-> "ok", doc |-> d] :
                 d \in { EmptyDict, FullDoc, [tag |-> "v3"],
                         [docker_hub_org |-> "cfgorg"] } },
        { EmptyDict, [DOCKER_HUB_ORG |-> "envorg"] } )

SpecInit == InitSettings /\ [][Next]_vars

-----------------------------------------------------------------------------
(* Vocabulary of the properties *)

\* subprocess.run invocations so far, in order
Runs == SelectSeq(trace, LAMBDA e : e.ev = "run")

Prints(msg) == SelectSeq(trace, LAMBDA e : e.ev = "print" /\ e.msg = msg)

\* __init__ returned a builder
Initialized == self # EmptyDict

\* The summary was printed
Summarized == Len(Prints("Total Connectors")) > 0

\* The run ended in main's `except Exception` handler
FatalError == Len(Prints("Error")) > 0

DryRun == "dry_run" \in cli.flags
SkipBuild == "skip_build" \in cli.flags
SkipPush == "skip_push" \in cli.flags

ConfigPassed == "config" \in DOMAIN cli.opts

\* The ignore entries the operator or the configuration file supplies
UserIgnore ==
    IF "ignore" \in DOMAIN cli.opts THEN Range(cli.opts.ignore)
    ELSE IF ConfigPassed /\ cfgfile.status = "ok" /\ "ignore_list" \in DOMAIN cfgfile.doc
    THEN Range(cfgfile.doc.ignore_list)
    ELSE {}

BuiltinIgnore == {".git", ".github", "__pycache__", "venv", "env"}

\* A connector by the specification's definition
IsConnector(e) ==
    /\ e.isdir
    /\ e.dockerfile
    /\ e.name \notin BuiltinIgnore
    /\ e.name \notin UserIgnore

\* The connectors among the first n entries of the listing, in listing order
Discovered(n) == SelectSeq(SubSeq(root.listing, 1, n), IsConnector)

Names(res) == [k \in DOMAIN res |-> res[k][1]]

\* The build context and the image reference of a subprocess run
ContextOf(run) == run.args[8]
ImageOf(run) == run.args[7]
Pushes(run) == "--push" \in Range(run.args)

-----------------------------------------------------------------------------
(* C1 *)

\* Every connector of the entries the loop has passed has exactly one
\* outcome, in listing order; when builds are not suppressed each has
\* exactly one subprocess run, on its own directory, and its outcome is
\* success exactly when that run returned 0; the process exits only after
\* the whole listing was walked and the summary printed.
C1_Outcomes ==
    Initialized =>
        LET d == Discovered(i - 1)
        IN  /\ Len(results) = Len(d)
            /\ \A k \in DOMAIN d : results[k][1] = d[k].name
            /\ ~(DryRun \/ SkipBuild) =>
                  /\ Len(Runs) = Len(d)
                  /\ \A k \in DOMAIN d :
                        /\ ContextOf(Runs[k]) = RootPath \o "/" \o d[k].name
                        /\ results[k][2] = (Runs[k].outcome = "0")
            /\ pc = "exit" =>
                  /\ i = Len(root.listing) + 1
                  /\ Summarized
                  /\ ~FatalError

\* C1 (isolation): for every listing and every pattern of build results,
\* every discovered connector is attempted and has exactly one outcome in
\* discovery order, failure exactly for the builds that failed or raised,
\* and every initialized run reaches the summary and terminates.
C1_Isolation ==
    /\ []C1_Outcomes
    /\ Initialized ~> (pc = "exit" /\ Summarized)

\* Three connectors, the second one's build raises: three outcomes
\* (success, failure, success) and the run has ended with its summary.
C1_Witness ==
    /\ pc = "exit"
    /\ Summarized
    /\ Len(results) = 3
    /\ Len(Runs) = 3
    /\ Runs[2].outcome = "OSError"
    /\ results[1][2] /\ ~results[2][2] /\ results[3][2]

-----------------------------------------------------------------------------
(* C2 *)

\* C2 (exit status): a run that printed its summary has exited with 0 if
\* every recorded outcome is success (also with no outcome at all) and
\* with 1 if some outcome is failure, the printed counts are those of the
\* results, and main's handler has not replaced that exit.
C2_ExitStatus ==
    (pc = "exit" /\ Summarized) =>
        /\ exit = << IF \A k \in DOMAIN results : results[k][2] THEN 0 ELSE 1 >>
        /\ ~FatalError
        /\ Prints("Total Connectors")[1].about = Len(results)
        /\ Prints("Failed Builds")[1].about =
               Cardinality({k \in DOMAIN results : ~results[k][2]})

\* A finished run with one success and one failure, exit code 1.
C2_Witness ==
    /\ pc = "exit"
    /\ Summarized
    /\ exit = <<1>>
    /\ \E k \in DOMAIN results : results[k][2]
    /\ \E k \in DOMAIN results : ~results[k][2]

-----------------------------------------------------------------------------
(* C3 *)

\* The root is no directory, or the file at the --config path does not parse
BadStart == ~root.isdir \/ (ConfigPassed /\ cfgfile.status = "malformed")

\* C3 (fatal initialization): with a root that is no directory or a
\* configuration file that does not parse, the run never has a builder,
\* never walks the listing, never runs a build and never prints a summary,
\* and once it has left main it has exited with code 1.
C3_FatalInit ==
    BadStart =>
        /\ ~Initialized
        /\ i = 1
        /\ results = <<>>
        /\ Runs = <<>>
        /\ ~Summarized
        /\ pc \in {"main", "exit"}
        /\ pc = "exit" => exit = <<1>>

\* A run over a valid root whose configuration file does not parse has exited.
C3_Witness ==
    /\ root.isdir
    /\ root.listing # <<>>
    /\ ConfigPassed
    /\ cfgfile.status = "malformed"
    /\ pc = "exit"
    /\ exit = <<1>>

-----------------------------------------------------------------------------
(* C4 *)

\* C4 (push gating): every build request asks for a push only if the
\* builder has a registry namespace and skip-push is not set; when builds
\* are not suppressed every outcome has its build request, and an outcome
\* is success whenever its build returned 0.
C4_PushGating ==
    Initialized =>
        /\ \A k \in DOMAIN Runs :
              Pushes(Runs[k]) => (self.docker_hub_org # "" /\ ~SkipPush)
        /\ ~(DryRun \/ SkipBuild) =>
              /\ Len(Runs) = Len(results)
              /\ \A k \in DOMAIN results :
                    Runs[k].outcome = "0" => results[k][2]

\* Without a namespace and without skip-push, a build ran with no push and
\* its outcome is success.
C4_Witness ==
    /\ Initialized
    /\ self.docker_hub_org = ""
    /\ ~SkipPush
    /\ Len(Runs) > 0
    /\ ~Pushes(Runs[1])
    /\ Runs[1].outcome = "0"
    /\ results # <<>>
    /\ results[1][2]

-----------------------------------------------------------------------------
(* C5 *)

\* C5 (suppressed runs): with dry-run or skip-build set, subprocess.run is
\* never invoked and the outcomes are the connectors of the entries walked
\* so far, in listing order, all success: the results are a function of
\* the settings and the listing alone.
C5_Suppressed ==
    (Initialized /\ (DryRun \/ SkipBuild)) =>
        /\ Runs = <<>>
        /\ results = [k \in DOMAIN Discovered(i - 1) |->
                         <<Discovered(i - 1)[k].name, TRUE>>]

\* A finished dry run (skip-build not set) over two connectors or more.
C5_Witness ==
    /\ pc = "exit"
    /\ Summarized
    /\ DryRun
    /\ ~SkipBuild
    /\ Len(results) >= 2

-----------------------------------------------------------------------------
(* C6 *)

\* The image reference of `folder` under `tag` with the builder's namespace
Ref(folder, tag) ==
    (IF self.docker_hub_org # "" THEN self.docker_hub_org \o "/" ELSE "")
        \o folder \o ":" \o tag

\* The subprocess runs on the directory of `folder`
RunsFor(folder) ==
    SelectSeq(Runs, LAMBDA r : ContextOf(r) = RootPath \o "/" \o folder)

\* C6 as claimed (tag fan-out): a connector built under a primary tag other
\* than 'latest' has two image references attempted, the primary one and
\* 'latest', and is a success only if both succeed; under 'latest' it has
\* exactly one.
C6_TagFanOut ==
    (Initialized /\ ~(DryRun \/ SkipBuild)) =>
        \A k \in DOMAIN results :
            LET rs == RunsFor(results[k][1])
                images == {ImageOf(rs[n]) : n \in DOMAIN rs}
            IN  IF self.tag # "latest"
                THEN /\ Len(rs) = 2
                     /\ images = {Ref(results[k][1], self.tag), Ref(results[k][1], "latest")}
                     /\ results[k][2] = (\A n \in DOMAIN rs : rs[n].outcome = "0")
                ELSE /\ Len(rs) = 1
                     /\ images = {Ref(results[k][1], "latest")}

\* C6 as amended (single tag): every connector that is built has exactly
\* one image reference attempted, the one under the primary tag, whether
\* or not that tag is 'latest', and its outcome is success exactly when
\* that one attempt returned 0.
C6_SingleTag ==
    (Initialized /\ ~(DryRun \/ SkipBuild)) =>
        \A k \in DOMAIN results :
            LET rs == RunsFor(results[k][1])
            IN  /\ Len(rs) = 1
                /\ ImageOf(rs[1]) = Ref(results[k][1], self.tag)
                /\ results[k][2] = (rs[1].outcome = "0")

\* A finished run under the tag v2 whose first connector was built with
\* success.
C6_Witness ==
    /\ pc = "exit"
    /\ Summarized
    /\ self.tag = "v2"
    /\ Len(Runs) > 0
    /\ Len(results) > 0
    /\ results[1][2]

-----------------------------------------------------------------------------
(* C7 *)

\* C7 (discovery validity): the builder's exclude set holds every built-in
\* entry and every user-supplied one; every outcome and every build is for
\* a directory of the listing that has a Dockerfile and whose name is not
\* excluded; an entry that fails validation has no outcome; and an empty
\* root is summarized as zero total, zero success, zero failure.
C7_Discovery ==
    Initialized =>
        /\ BuiltinIgnore \subseteq self.ignore_list
        /\ UserIgnore \subseteq self.ignore_list
        /\ \A k \in DOMAIN results :
              \E j \in 1..(i - 1) :
                  /\ root.listing[j].name = results[k][1]
                  /\ IsConnector(root.listing[j])
        /\ \A n \in DOMAIN Runs :
              \E j \in 1..(i - 1) :
                  /\ ContextOf(Runs[n]) = RootPath \o "/" \o root.listing[j].name
                  /\ IsConnector(root.listing[j])
        /\ Len(results) = Len(Discovered(i - 1))
        /\ (Summarized /\ root.listing = <<>>) =>
              /\ Prints("Total Connectors")[1].about = 0
              /\ Prints("Successful Builds")[1].about = 0
              /\ Prints("Failed Builds")[1].about = 0

\* A finished run with a user ignore list over a listing that holds a
\* directory with a Dockerfile under a built-in ignored name: some entry
\* was skipped and some connector has an outcome.
C7_Witness ==
    /\ pc = "exit"
    /\ Summarized
    /\ "ignore" \in DOMAIN cli.opts
    /\ \E j \in DOMAIN root.listing :
          /\ root.listing[j].name \in BuiltinIgnore
          /\ root.listing[j].dockerfile
    /\ results # <<>>
    /\ Len(results) < Len(root.listing)

-----------------------------------------------------------------------------
(* C8 *)

\* docker.from_env() failed
DockerUnavailable ==
    \E p \in DOMAIN trace :
        trace[p].ev = "print" /\ trace[p].msg = "Error" /\ trace[p].about = "DockerException"

\* C8 as claimed (missing config file): a run over a valid root with a
\* --config path at which no file exists does not fail in initialization:
\* unless the docker client is unavailable it ends with its summary, as a
\* run without --config does.
C8_MissingConfigNonFatal ==
    (root.isdir /\ ConfigPassed /\ cfgfile.status = "missing" /\ pc = "exit") =>
        (Summarized \/ DockerUnavailable)

-----------------------------------------------------------------------------
(* C9 *)

\* The configuration the file gives
ConfigDoc == IF ConfigPassed /\ cfgfile.status = "ok" THEN cfgfile.doc ELSE EmptyDict

\* explicit parameter > config-file value > environment variable > default
Layered(key, cfgkey, envkey, default) ==
    IF key \in DOMAIN cli.opts THEN cli.opts[key]
    ELSE IF cfgkey \in DOMAIN ConfigDoc THEN ConfigDoc[cfgkey]
    ELSE IF envkey \in DOMAIN environ THEN environ[envkey]
    ELSE default

\* C9 as claimed (settings precedence): in a run started through main the
\* namespace, the tag and the platform list are each the option the
\* operator passed, else the configuration file's value, else the
\* environment variable, else the default.
C9_Precedence ==
    Initialized =>
        /\ self.docker_hub_org = Layered("org", "docker_hub_org", "DOCKER_HUB_ORG", "")
        /\ self.tag = Layered("tag", "tag", "<no variable>", "latest")
        /\ self.platforms =
               Layered("platforms", "platforms", "<no variable>", <<"linux/amd64", "linux/arm64">>)

-----------------------------------------------------------------------------
(* C10 *)

\* Positions of the trace that hold a notification of the given kind.  The
\* program has no statement that sends one.
Notified(kind) == {p \in DOMAIN trace : trace[p].ev = "notify" /\ trace[p].kind = kind}

Position(ev) == {p \in DOMAIN trace : trace[p].ev = ev}

\* C10 as claimed (notification ordering): an initialized run has emitted
\* one run-start notification, before any build; one per-unit notification
\* for each recorded outcome, the k-th after the k-th connector's build and
\* before the next one's; and, once it has exited, one run-completion
\* notification after the last outcome.
C10_NotificationOrder ==
    Initialized =>
        /\ Cardinality(Notified("run-start")) = 1
        /\ \A p \in Notified("run-start"), q \in Position("run") \cup Position("append") : p < q
        /\ Cardinality(Notified("unit")) = Len(results)
        /\ \A p \in Notified("unit") :
              LET k == Cardinality({q \in Notified("unit") : q <= p})
              IN  /\ Cardinality({q \in Position("run") : q < p}) = Cardinality({n \in DOMAIN Runs : n <= k})
                  /\ Cardinality({q \in Position("append") : q < p}) \in {k - 1, k}
        /\ pc = "exit" =>
              /\ Cardinality(Notified("run-completion")) = 1
              /\ \A p \in Notified("run-completion"), q \in Position("append") : q < p

====
